---- MODULE Spec2Model ----
(***************************************************************************)
(* A model of ecoclim_tools: the preprocessing functions of preprocess.py  *)
(* (format_coords, detrend, detrend_dask, deseasonalize, normalize), the   *)
(* package entry point __init__.py with config.py, and the plotting        *)
(* functions of plot.py.                                                   *)
(*                                                                         *)
(* Every call is one action.  A preprocessing function is pure: its        *)
(* specification draws the argument in Init and the action applies it.     *)
(* Numbers are integers; a quotient is kept exactly as <<num, den>>.       *)
(***************************************************************************)
EXTENDS Integers, Sequences, FiniteSets, TLC

VARIABLES
    pc,        \* where the running program is
    args,      \* the arguments of the current call
    ret,       \* what the last call returned or raised
    ns,        \* the names bound in the ecoclim_tools package namespace
    fs,        \* the directories and files that exist
    environ,   \* the process environment: the value of ECO_SCRATCH
    rcParams,  \* matplotlib's process-wide configuration
    axs,       \* the axes drawn so far, in creation order
    calls      \* how many plotting calls the script has made

vars == <<pc, args, ret, ns, fs, environ, rcParams, axs, calls>>

\* What a preprocessing function never touches.
world == <<ns, fs, environ, rcParams, axs, calls>>

\* ------------------------------------------------------------------ bounds

\* Longest latitude coordinate drawn for format_coords.
MaxLat == 3
\* Longest longitude coordinate drawn for format_coords.
MaxLon == 2
\* Longest series drawn for detrend and detrend_dask.
MaxT == 4
\* Longest series drawn for deseasonalize.
MaxS == 3
\* Most rows and most columns of an array drawn for normalize.
MaxN == 2
\* Most axes handed to plot_add_subplot_label (one more than the alphabet).
MaxAxes == 27
\* Longest sequence of plotting calls.
MaxCalls == 4

\* ----------------------------------------------------------------- helpers

\* All sequences over S of length 1..n.
SeqsUpTo(S, n) == UNION {[1..k -> S] : k \in 1..n}

\* s[::-1]
Reversed(s) == [i \in 1..Len(s) |-> s[Len(s) + 1 - i]]

SetMax(S) == CHOOSE m \in S : \A v \in S : v <= m

SetMin(S) == CHOOSE m \in S : \A v \in S : m <= v

Range(s) == {s[i] : i \in DOMAIN s}

RECURSIVE SumSeq(_)
\* The sum of a sequence of integers.
SumSeq(s) == IF s = <<>> THEN 0 ELSE s[1] + SumSeq(Tail(s))

RECURSIVE Pow(_, _)
\* x ** k
Pow(x, k) == IF k = 0 THEN 1 ELSE x * Pow(x, k - 1)

RECURSIVE Concat(_)
\* The blocks of a chunked array, joined in order.
Concat(blocks) == IF blocks = <<>> THEN <<>> ELSE blocks[1] \o Concat(Tail(blocks))

\* M without row 1 and column j.
Minor(M, j) ==
    [r \in 1..(Len(M) - 1) |->
        [c \in 1..(Len(M) - 1) |-> M[r + 1][IF c < j THEN c ELSE c + 1]]]

RECURSIVE Det(_)
\* The determinant of a square integer matrix, expanded along its first row.
Det(M) ==
    IF Len(M) = 1 THEN M[1][1]
    ELSE SumSeq([j \in 1..Len(M) |->
            (IF j % 2 = 1 THEN 1 ELSE -1) * M[1][j] * Det(Minor(M, j))])

\* np.lexsort with one key: the stable ascending argsort, ties kept in index order.
Lexsort(key) ==
    LET n == Len(key)
        before(j, i) == key[j] < key[i] \/ (key[j] = key[i] /\ j < i)
        rank(i) == 1 + Cardinality({j \in 1..n : before(j, i)})
    IN  [r \in 1..n |-> CHOOSE i \in 1..n : rank(i) = r]

\* The value of ret before a call returns, and after a call raised.
NoResult == [pending |-> TRUE]

Raised(e) == [raised |-> e]

IsRaised(r) == "raised" \in DOMAIN r

\* matplotlib's defaults for the keys the package sets, and seaborn's style.
\* font_size is in points, figsize in tenths of an inch.
RcDefault ==
    [font_size |-> 10, spines_right |-> TRUE, spines_top |-> TRUE,
     figsize |-> <<64, 48>>, style |-> "default"]

\* The process before the package is imported: nothing bound, nothing drawn.
WorldIdle ==
    /\ ns = <<>>
    /\ fs = {}
    /\ environ = "unset"
    /\ rcParams = RcDefault
    /\ axs = <<>>
    /\ calls = 0

\* ------------------------------------------------- the labelled array (2-D)

\* A DataArray: dims (the two dimension names, rows then columns), coords (one
\* coordinate vector per dimension name) and data (a matrix, data[i][j]).
DimAxis(da, dim) == CHOOSE a \in 1..2 : da.dims[a] = dim

\* da.isel({dim: idx}): the coordinate of dim and the data along dim, taken at idx.
Isel(da, dim, idx) ==
    LET a == DimAxis(da, dim)
        c == da.coords[dim]
    IN  [dims   |-> da.dims,
         coords |-> [da.coords EXCEPT ![dim] = [k \in 1..Len(idx) |-> c[idx[k]]]],
         data   |-> IF a = 1
                    THEN [i \in 1..Len(idx) |-> da.data[idx[i]]]
                    ELSE [i \in 1..Len(da.data) |->
                             [j \in 1..Len(idx) |-> da.data[i][idx[j]]]]]

\* da.sortby(dim, ascending): order = np.lexsort(key); indices = order if
\* ascending else order[::-1]; da.isel({dim: indices}).
Sortby(da, dim, ascending) ==
    LET order == Lexsort(da.coords[dim])
    IN  Isel(da, dim, IF ascending THEN order ELSE Reversed(order))

\* da.rename({old: new}) for a dimension coordinate.
Rename(da, old, new) ==
    IF old \notin DOMAIN da.coords THEN da
    ELSE [dims   |-> [a \in 1..2 |-> IF da.dims[a] = old THEN new ELSE da.dims[a]],
          coords |-> [n \in (DOMAIN da.coords \ {old}) \cup {new} |->
                         IF n = new THEN da.coords[old] ELSE da.coords[n]],
          data   |-> da.data]

\* da.assign_coords(dim=vals): the coordinate replaced, the data left in place.
AssignCoords(da, dim, vals) == [da EXCEPT !.coords[dim] = vals]

\* ------------------------------------------------------------ format_coords

\* A wrap that forgets to shift back: (lon + 180) % 360.
WrapLonNoShift(v) == (v + 180) % 360

\* ((lon + 180) % 360) - 180
WrapLon(v) == ((v + 180) % 360) - 180

\* if da.lon.max() > 180
LonNeedsWrap(lon) == SetMax(Range(lon)) > 180

\* step 2: wrap 0-360 longitudes to -180..180 and sort ascending.
FormatLon(da) ==
    IF "lon" \in DOMAIN da.coords /\ LonNeedsWrap(da.coords["lon"])
    THEN LET lon == da.coords["lon"]
         IN  Sortby(AssignCoords(da, "lon", [k \in 1..Len(lon) |-> WrapLon(lon[k])]),
                    "lon", TRUE)
    ELSE da

\* if not da.lat[0] > da.lat[-1]
LatNeedsSort(lat) == ~(lat[1] > lat[Len(lat)])

\* step 3: sort latitude descending unless the guard finds it sorted.
FormatLat(da) ==
    IF "lat" \in DOMAIN da.coords /\ LatNeedsSort(da.coords["lat"])
    THEN Sortby(da, "lat", FALSE)
    ELSE da

\* format_coords(da): rename, wrap and sort longitude, sort latitude.
format_coords(da) ==
    FormatLat(FormatLon(Rename(Rename(da, "longitude", "lon"), "latitude", "lat")))

\* Latitude and longitude values the arguments are drawn from (degrees).
LatVals == {-45, 0, 45}

LonVals == {-270, -90, 0, 180, 270, 360}

RowNames == {"lat", "latitude", "y"}

ColNames == {"lon", "longitude", "x"}

\* An input array: cell (i, j) holds <<i, j>>, so every cell is told apart.
MkArray(rn, cn, lat, lon) ==
    [dims   |-> <<rn, cn>>,
     coords |-> [n \in {rn, cn} |-> IF n = rn THEN lat ELSE lon],
     data   |-> [i \in 1..Len(lat) |-> [j \in 1..Len(lon) |-> <<i, j>>]]]

\* Every array of up to MaxLat latitudes and MaxLon longitudes, in any order
\* and with repeats, under every naming of its two dimensions.
InitCoords ==
    /\ pc = "format_coords:arg"
    /\ \E rn \in RowNames, cn \in ColNames,
          lat \in SeqsUpTo(LatVals, MaxLat), lon \in SeqsUpTo(LonVals, MaxLon) :
          args = MkArray(rn, cn, lat, lon)
    /\ ret = NoResult
    /\ WorldIdle

\* formatted = format_coords(data)
CallFormatCoords ==
    /\ pc = "format_coords:arg"
    /\ pc' = "format_coords:once"
    /\ ret' = format_coords(args)
    /\ UNCHANGED <<args, world>>

\* format_coords applied to its own result.
CallFormatCoordsAgain ==
    /\ pc = "format_coords:once"
    /\ pc' = "format_coords:twice"
    /\ ret' = format_coords(ret)
    /\ UNCHANGED <<args, world>>

NextCoords == CallFormatCoords \/ CallFormatCoordsAgain

SpecCoords == InitCoords /\ [][NextCoords]_vars

\* ---- claims about format_coords

CoordsDone == pc \in {"format_coords:once", "format_coords:twice"}

NonIncreasing(s) == \A i \in 1..(Len(s) - 1) : s[i] >= s[i + 1]

NonDecreasing(s) == \A i \in 1..(Len(s) - 1) : s[i] <= s[i + 1]

\* The name the input gives its latitude (or longitude), if it has one.
LatNameOf(da) == IF "latitude" \in DOMAIN da.coords THEN "latitude" ELSE "lat"

LonNameOf(da) == IF "longitude" \in DOMAIN da.coords THEN "longitude" ELSE "lon"

HasLat(da) == LatNameOf(da) \in DOMAIN da.coords

HasLon(da) == LonNameOf(da) \in DOMAIN da.coords

\* The longitude in [-180, 180) that differs from v by a multiple of 360.
Wrapped(v) == CHOOSE w \in -180..179 : (w - v) % 360 = 0

Count(s, v) == Cardinality({k \in DOMAIN s : s[k] = v})

\* C1: whenever the input has a 'lat' (or 'latitude') coordinate, in any order,
\* the 'lat' values format_coords returns are non-increasing from first to last.
C1_LatSortedDescending ==
    (CoordsDone /\ HasLat(args)) => NonIncreasing(ret.coords["lat"])

\* C2: for an input whose longitudes all lie in 0..360, every returned 'lon'
\* lies in [-180, 180]; and when the input maximum exceeds 180 the returned
\* values are exactly the wrapped input values, in ascending order.
C2_LonNormalized ==
    (pc = "format_coords:once" /\ HasLon(args)
        /\ \A v \in Range(args.coords[LonNameOf(args)]) : 0 <= v /\ v <= 360)
    => LET lon0 == args.coords[LonNameOf(args)]
           lon1 == ret.coords["lon"]
       IN  /\ \A v \in Range(lon1) : -180 <= v /\ v <= 180
           /\ SetMax(Range(lon0)) > 180 =>
                 /\ NonDecreasing(lon1)
                 /\ Len(lon1) = Len(lon0)
                 /\ \A w \in Range(lon1) \cup {Wrapped(lon0[k]) : k \in DOMAIN lon0} :
                       Count(lon1, w) = Cardinality({k \in DOMAIN lon0 : Wrapped(lon0[k]) = w})

\* A call that wrapped 0..360 longitudes and had to reorder them afterwards.
C2_Witness ==
    /\ pc = "format_coords:once" /\ HasLon(args)
    /\ \A v \in Range(args.coords[LonNameOf(args)]) : 0 <= v /\ v <= 360
    /\ SetMax(Range(args.coords[LonNameOf(args)])) > 180
    /\ ret.coords["lon"] = <<-90, 0>>
    /\ args.coords[LonNameOf(args)] = <<360, 270>>

\* Each cell of the result sits at the latitude and the (wrapped) longitude of
\* the input cell it came from.
CellsKeepCoords(da0, da1) ==
    LET rn0 == da0.dims[1]
        cn0 == da0.dims[2]
        rn1 == da1.dims[1]
        cn1 == da1.dims[2]
        wraps == HasLon(da0) /\ SetMax(Range(da0.coords[cn0])) > 180
    IN  \A i \in DOMAIN da1.data : \A j \in DOMAIN da1.data[i] :
           LET o == da1.data[i][j]
           IN  /\ da1.coords[rn1][i] = da0.coords[rn0][o[1]]
               /\ da1.coords[cn1][j] =
                     IF wraps THEN Wrapped(da0.coords[cn0][o[2]])
                     ELSE da0.coords[cn0][o[2]]

\* C10: format_coords(format_coords(da)) has the coordinate order and the data
\* of format_coords(da), for every input (duplicate or unsorted values too),
\* and every cell stays paired with the coordinates of its input cell.
C10_Idempotent ==
    /\ pc = "format_coords:twice" => ret = format_coords(args)
    /\ CoordsDone => CellsKeepCoords(args, ret)

\* The part of C10 the code keeps: cells stay paired with their coordinates.
C10_CellsStayPaired == CoordsDone => CellsKeepCoords(args, ret)

\* ---------------------------------------------------- detrend, detrend_dask

\* A series: time (the coordinate along dim), values (the data), chunks (the
\* dask chunk sizes along dim, <<>> when the array is not chunked) and deg.

\* da.polyfit(dim, deg).polyfit_coefficients on NaN-free data with deg + 1 or
\* more distinct coordinate values: the least-squares polynomial, solved here
\* exactly from the normal equations by Cramer's rule.  degree is the
\* coefficient's coordinate (deg down to 0); coefficient k is num[k] / den.
Polyfit(time, values, deg) ==
    LET n == Len(time)
        order == deg + 1
        pw(j) == deg + 1 - j
        G == [j \in 1..order |-> [k \in 1..order |->
                 SumSeq([i \in 1..n |-> Pow(time[i], pw(j) + pw(k))])]]
        b == [j \in 1..order |-> SumSeq([i \in 1..n |-> Pow(time[i], pw(j)) * values[i]])]
        Gk(k) == [j \in 1..order |-> [c \in 1..order |-> IF c = k THEN b[j] ELSE G[j][c]]]
    IN  [degree |-> [j \in 1..order |-> pw(j)],
         num    |-> [k \in 1..order |-> Det(Gk(k))],
         den    |-> Det(G)]

\* coeffs.sel(degree=d), 0 where the label is missing.
CoefAt(coeffs, d) ==
    IF \E k \in DOMAIN coeffs.degree : coeffs.degree[k] = d
    THEN coeffs.num[CHOOSE k \in DOMAIN coeffs.degree : coeffs.degree[k] = d]
    ELSE 0

RECURSIVE HornerSkipsConstant(_, _, _, _)
\* The loop one step short, range(max_deg - 1, 0, -1): the constant term is
\* never added.
HornerSkipsConstant(res, x, coeffs, d) ==
    IF d < 1 THEN res
    ELSE HornerSkipsConstant(res * x + CoefAt(coeffs, d), x, coeffs, d - 1)

RECURSIVE Horner(_, _, _, _)
\* for deg in range(max_deg - 1, -1, -1): res *= coord; res += coeffs[deg]
Horner(res, x, coeffs, d) ==
    IF d < 0 THEN res ELSE Horner(res * x + CoefAt(coeffs, d), x, coeffs, d - 1)

\* xr.polyval(coord, coeffs): Horner's scheme from the highest degree down
\* (numerators over coeffs.den).
XrPolyval(coord, coeffs) ==
    LET maxdeg == SetMax(Range(coeffs.degree))
    IN  [i \in 1..Len(coord) |->
            Horner(CoefAt(coeffs, maxdeg), coord[i], coeffs, maxdeg - 1)]

\* da - trend, over the common denominator den.
SubtractTrend(values, trend, den) ==
    [num |-> [i \in 1..Len(values) |-> den * values[i] - trend[i]], den |-> den]

\* detrend(da, dim, deg)
detrend(da) ==
    LET coeffs == Polyfit(da.time, da.values, da.deg)
    IN  SubtractTrend(da.values, XrPolyval(da.time, coeffs), coeffs.den)

RECURSIVE FromArray(_, _)
\* dask.array.from_array(x, chunks=chunks): the blocks of x.
FromArray(x, chunks) ==
    IF chunks = <<>> THEN <<>>
    ELSE <<SubSeq(x, 1, chunks[1])>>
            \o FromArray(SubSeq(x, chunks[1] + 1, Len(x)), Tail(chunks))

\* Degree labels in ascending order: np.arange(N), the reversal forgotten.
VanderLabelsAscending(N) == [i \in 1..N |-> i - 1]

\* np.arange(deg_coord.max() + 1)[::-1]: the degree label of each column.
VanderLabels(N) == [i \in 1..N |-> N - i]

\* np.stack([x ** (N - 1 - i) for i in range(N)], axis=1): one row per x.
VanderRows(x, N) == [r \in 1..Len(x) |-> [i \in 1..N |-> Pow(x[r], N - i)]]

\* _polyval(coord, coeffs): (lhs * coeffs).sum(degree), the product aligned on
\* the degree labels the two share.  coord is chunked: lhs is built block by block.
_polyval(coord, coeffs) ==
    LET N == SetMax(Range(coeffs.degree)) + 1
        labels == VanderLabels(N)
        shared == {i \in 1..N : \E k \in DOMAIN coeffs.degree : coeffs.degree[k] = labels[i]}
        rowsum(row) == SumSeq([i \in 1..N |->
                          IF i \in shared THEN row[i] * CoefAt(coeffs, labels[i]) ELSE 0])
        block(x) == [r \in 1..Len(x) |-> rowsum(VanderRows(x, N)[r])]
    IN  Concat([c \in 1..Len(coord) |-> block(coord[c])])

\* detrend_dask(da, dim, deg); da.chunksizes[dim] raises KeyError when da is
\* not chunked.
detrend_dask(da) ==
    IF da.chunks = <<>> THEN Raised("KeyError")
    ELSE LET p == Polyfit(da.time, da.values, da.deg)
             chunked_coord == FromArray(da.time, da.chunks)
         IN  SubtractTrend(da.values, _polyval(chunked_coord, p), p.den)

TimeVals == {-1, 0, 2}

\* Data values of the series drawn for detrend and detrend_dask.
TrendVals == {0, 1}

\* Data values of the arrays drawn for deseasonalize and normalize.
DataVals == {0, 1, 3}

Degs == {0, 1, 2}

\* not chunked, one chunk (chunk({'time': -1})), or one chunk per element.
ChunkingsOf(n) == {<<>>, <<n>>, [i \in 1..n |-> 1]}

\* The fit is determined: more distinct times than the degree.
WellPosed(time, deg) == Cardinality(Range(time)) > deg

\* Every NaN-free series of up to MaxT points, under every chunking and degree
\* for which the fit is determined.
InitDetrend ==
    /\ pc = "detrend:arg"
    /\ \E n \in 1..MaxT, d \in Degs :
          \E t \in [1..n -> TimeVals], v \in [1..n -> TrendVals], c \in ChunkingsOf(n) :
             /\ WellPosed(t, d)
             /\ args = [time |-> t, values |-> v, chunks |-> c, deg |-> d]
    /\ ret = NoResult
    /\ WorldIdle

\* detrended = detrend(data, 'time', deg)
CallDetrend ==
    /\ pc = "detrend:arg"
    /\ pc' = "detrend:detrend"
    /\ ret' = detrend(args)
    /\ UNCHANGED <<args, world>>

\* detrended = detrend_dask(dask_data, 'time', deg).compute()
CallDetrendDask ==
    /\ pc = "detrend:arg"
    /\ pc' = "detrend:detrend_dask"
    /\ ret' = detrend_dask(args)
    /\ UNCHANGED <<args, world>>

NextDetrend == CallDetrend \/ CallDetrendDask

SpecDetrend == InitDetrend /\ [][NextDetrend]_vars

\* ---- claims about detrend and detrend_dask

\* sum over k of c[degree = k] * x ** k, each coefficient taken by its label.
PowerSum(x, coeffs) ==
    SumSeq([k \in 1..Len(coeffs.degree) |-> coeffs.num[k] * Pow(x, coeffs.degree[k])])

\* C3: on NaN-free chunked input detrend_dask returns the values of detrend,
\* for every degree; and _polyval(x, c) is the sum over k of c[degree=k] * x^k.
C3_DaskEqualsDetrend ==
    (pc = "detrend:detrend_dask" /\ args.chunks # <<>>)
    => /\ ret = detrend(args)
       /\ LET c == Polyfit(args.time, args.values, args.deg)
              t == _polyval(FromArray(args.time, args.chunks), c)
          IN  /\ Len(t) = Len(args.time)
              /\ \A i \in DOMAIN t : t[i] = PowerSum(args.time[i], c)

\* detrend_dask ran on a series in several chunks, out of coordinate order,
\* with a quadratic fit that leaves a residual.
C3_Witness ==
    /\ pc = "detrend:detrend_dask"
    /\ args.deg = 2
    /\ Len(args.chunks) = 4
    /\ args.time = <<2, -1, 0, -1>>
    /\ \E i \in DOMAIN ret.num : ret.num[i] # 0 /\ ret.num[i] # ret.den * args.values[i]

\* The residual and the coordinate it was fitted on, after either call.
Detrended == pc \in {"detrend:detrend", "detrend:detrend_dask"} /\ ~IsRaised(ret)

\* C4: with deg = 1 and two or more distinct times, the output of detrend and
\* of detrend_dask is orthogonal to the constant and to time, so its own
\* least-squares line has slope zero.
C4_LinearTrendRemoved ==
    (Detrended /\ args.deg = 1)
    => /\ SumSeq(ret.num) = 0
       /\ SumSeq([i \in DOMAIN ret.num |-> ret.num[i] * args.time[i]]) = 0
       /\ LET n == Len(args.time)
              sx == SumSeq(args.time)
              sr == SumSeq(ret.num)
              sxr == SumSeq([i \in DOMAIN ret.num |-> ret.num[i] * args.time[i]])
          IN  n * sxr - sx * sr = 0

\* A linear detrend of a series that has a trend and is not a straight line.
C4_Witness ==
    /\ Detrended /\ args.deg = 1
    /\ args.time = <<-1, 0, 2>> /\ args.values = <<0, 1, 1>>
    /\ \E i \in DOMAIN ret.num : ret.num[i] # 0

\* ------------------------------------------------------------ deseasonalize

\* The season of a month, as the time accessor names it.
SeasonOf(month) ==
    CASE month \in {12, 1, 2} -> "DJF"
      [] month \in {3, 4, 5} -> "MAM"
      [] month \in {6, 7, 8} -> "JJA"
      [] OTHER -> "SON"

\* A group key that ignores freq and always groups by month.
GroupKeyMonthOnly(stamp, freq) == <<"month", stamp.month>>

\* f"{time_dim}.{freq}": the group label of a time stamp.
GroupKey(stamp, freq) ==
    CASE freq = "month" -> <<"month", stamp.month>>
      [] freq = "year" -> <<"year", stamp.year>>
      [] OTHER -> <<"season", SeasonOf(stamp.month)>>

\* da.groupby(key).mean(time_dim): per group label, the mean as <<sum, count>>.
Climatology(da) ==
    LET n == Len(da.time)
        key(i) == GroupKey(da.time[i], da.freq)
    IN  [g \in {key(i) : i \in 1..n} |->
            <<SumSeq([i \in 1..n |-> IF key(i) = g THEN da.values[i] ELSE 0]),
              Cardinality({i \in 1..n : key(i) = g})>>]

\* deseasonalize(da, time_dim, freq): da.groupby(key) - climatology, each value
\* less the mean of its own group, as <<num, den>>.
deseasonalize(da) ==
    LET clim == Climatology(da)
    IN  [i \in 1..Len(da.time) |->
            LET m == clim[GroupKey(da.time[i], da.freq)]
            IN  <<da.values[i] * m[2] - m[1], m[2]>>]

Stamps ==
    {[year |-> 2000, month |-> 1], [year |-> 2000, month |-> 2],
     [year |-> 2001, month |-> 1], [year |-> 2001, month |-> 6]}

Freqs == {"month", "year", "season"}

\* Every NaN-free series of up to MaxS stamps, in any order and with repeats.
InitSeason ==
    /\ pc = "deseasonalize:arg"
    /\ \E n \in 1..MaxS, f \in Freqs :
          \E t \in [1..n -> Stamps], v \in [1..n -> DataVals] :
             args = [time |-> t, values |-> v, freq |-> f]
    /\ ret = NoResult
    /\ WorldIdle

\* deseasonalized = deseasonalize(data, 'time', freq)
CallDeseasonalize ==
    /\ pc = "deseasonalize:arg"
    /\ pc' = "deseasonalize:done"
    /\ ret' = deseasonalize(args)
    /\ UNCHANGED <<args, world>>

NextSeason == CallDeseasonalize

SpecSeason == InitSeason /\ [][NextSeason]_vars

\* ---- claims about deseasonalize

\* The label the time accessor gives a stamp, read off the stamp itself.
LabelOf(stamp, freq) ==
    IF freq = "month" THEN stamp.month
    ELSE IF freq = "year" THEN stamp.year
    ELSE IF stamp.month \in {12, 1, 2} THEN 0
    ELSE IF stamp.month \in {3, 4, 5} THEN 1
    ELSE IF stamp.month \in {6, 7, 8} THEN 2 ELSE 3

SameGroup(da, i, j) == LabelOf(da.time[i], da.freq) = LabelOf(da.time[j], da.freq)

\* C5: every output value is the input value less the mean of the input values
\* of its group, so the output sums (and averages) to zero over every group.
C5_SeasonalCycleRemoved ==
    pc = "deseasonalize:done"
    => \A i \in DOMAIN args.time :
          LET grp == {j \in DOMAIN args.time : SameGroup(args, i, j)}
              n == Cardinality(grp)
              S == SumSeq([j \in DOMAIN args.time |-> IF j \in grp THEN args.values[j] ELSE 0])
          IN  /\ ret[i][2] > 0
              /\ ret[i][1] * n = ret[i][2] * (n * args.values[i] - S)
              /\ \A j \in grp : ret[j][2] = ret[i][2]
              /\ SumSeq([j \in DOMAIN args.time |-> IF j \in grp THEN ret[j][1] ELSE 0]) = 0

\* Two Januaries of different years and a February, grouped by month: the
\* Januaries share a mean, and the anomalies are not all zero.
C5_Witness ==
    /\ pc = "deseasonalize:done"
    /\ args.freq = "month"
    /\ args.time = <<[year |-> 2000, month |-> 1], [year |-> 2000, month |-> 2],
                     [year |-> 2001, month |-> 1]>>
    /\ args.values = <<0, 1, 3>>
    /\ ret = <<<<-3, 2>>, <<0, 1>>, <<3, 2>>>>

\* ---------------------------------------------------------------- normalize

\* The values a reduction over dim sees for cell (i, j): the whole array when
\* dim is None, the row when dim is the column dimension, else the column.
Lane(data, dim, i, j) ==
    CASE dim = "None" -> UNION {Range(data[r]) : r \in DOMAIN data}
      [] dim = "x" -> Range(data[i])
      [] OTHER -> {data[r][j] : r \in DOMAIN data}

\* normalize(da, dim): (da - da.min(dim)) / (da.max(dim) - da.min(dim)), each
\* quotient kept as <<num, den>>; 0 / 0 is what the division makes NaN.
normalize(da) ==
    [i \in DOMAIN da.data |-> [j \in DOMAIN da.data[i] |->
        LET lane == Lane(da.data, da.dim, i, j)
        IN  <<da.data[i][j] - SetMin(lane), SetMax(lane) - SetMin(lane)>>]]

IsNaN(q) == q[1] = 0 /\ q[2] = 0

\* Every NaN-free array of up to MaxN rows and MaxN columns, reduced over
\* everything (dim None), over its columns ("x") or over its rows ("y").
InitNorm ==
    /\ pc = "normalize:arg"
    /\ \E r \in 1..MaxN, c \in 1..MaxN, dim \in {"None", "x", "y"} :
          \E d \in [1..r -> [1..c -> DataVals]] : args = [data |-> d, dim |-> dim]
    /\ ret = NoResult
    /\ WorldIdle

\* normalized = normalize(data, dim)
CallNormalize ==
    /\ pc = "normalize:arg"
    /\ pc' = "normalize:done"
    /\ ret' = normalize(args)
    /\ UNCHANGED <<args, world>>

NextNorm == CallNormalize

SpecNorm == InitNorm /\ [][NextNorm]_vars

\* ---- claims about normalize

\* 0 <= num / den <= 1, which no NaN satisfies.
InUnit(q) == q[2] > 0 /\ 0 <= q[1] /\ q[1] <= q[2]

Cells(m) == UNION {Range(m[i]) : i \in DOMAIN m}

\* C6: for every non-empty NaN-free input every output value lies in [0, 1],
\* the smallest output is 0 and the largest is 1.
C6_NormalizedToUnit ==
    pc = "normalize:done"
    => /\ \A q \in Cells(ret) : InUnit(q)
       /\ \E q \in Cells(ret) : q[2] > 0 /\ q[1] = 0
       /\ \E q \in Cells(ret) : q[2] > 0 /\ q[1] = q[2]

\* What normalize does keep: a lane with two distinct values is mapped onto
\* [0, 1], and only a constant lane becomes NaN.
C6_UnitUnlessConstant ==
    pc = "normalize:done"
    => \A i \in DOMAIN ret : \A j \in DOMAIN ret[i] :
          IF Cardinality(Lane(args.data, args.dim, i, j)) > 1
          THEN InUnit(ret[i][j]) ELSE IsNaN(ret[i][j])

\* ------------------------------------------- config.py, __init__.py: import

\* A path is the tuple of its components.
\* SCRATCH_PATH = os.getenv("ECO_SCRATCH", "./scratch")
ScratchPath(env) == IF env = "unset" THEN "./scratch" ELSE env

\* scratch_dir = Path(SCRATCH_PATH); img_dir = scratch_dir / "img"
ScratchDir(env) == <<ScratchPath(env)>>

ImgDir(env) == ScratchDir(env) \o <<"img">>

\* if not d.exists(): d.mkdir(parents=True, exist_ok=True)
EnsureDir(files, d) ==
    IF d \in files THEN files
    ELSE files \cup {SubSeq(d, 1, k) : k \in 1..Len(d)}

DEFAULT_DPI == 300

\* The config module once its body has run.
ConfigModule(env) ==
    [SCRATCH_PATH |-> ScratchPath(env), scratch_dir |-> ScratchDir(env),
     img_dir |-> ImgDir(env), DEFAULT_FIG_SIZE |-> <<12, 8>>,
     DEFAULT_DPI |-> DEFAULT_DPI]

\* The plot module once its body has run: the defaults it reads from config.
PlotModule(config) ==
    [DEFAULT_SAVE_PATH |-> config.SCRATCH_PATH, DEFAULT_DPI |-> config.DEFAULT_DPI]

\* The functions preprocess.py defines.
PreprocessDefs ==
    {"format_coords", "detrend", "_polyval", "detrend_dask", "deseasonalize",
     "area_weighted_mean", "standardize", "normalize", "mask_ocean"}

\* from .preprocess import (...): the names the package imports.
ImportedNames ==
    {"format_coords", "detrend", "deseasonalize", "area_weighted_mean",
     "normalize", "mask_ocean"}

\* __all__ = [...]
AllList ==
    <<"config", "plot", "format_coords", "detrend", "deseasonalize",
      "area_weighted_mean", "normalize", "mask_ocean">>

\* Bind name to value in a namespace.
Bind(space, name, value) ==
    [n \in DOMAIN space \cup {name} |-> IF n = name THEN value ELSE space[n]]

RECURSIVE BindAll(_, _, _)
\* Bind every name of a set to the function of that name in module.
BindAll(space, names, module) ==
    IF names = {} THEN space
    ELSE LET n == CHOOSE x \in names : TRUE
         IN  BindAll(Bind(space, n, [function |-> module \o "." \o n]), names \ {n}, module)

\* The package namespace after each statement of __init__.py.
NsVersion(space) == Bind(space, "__version__", "0.1.0")

NsConfig(space, env) == Bind(space, "config", ConfigModule(env))

NsPlot(space) == Bind(space, "plot", PlotModule(space["config"]))

NsPreprocess(space) ==
    BindAll(Bind(space, "preprocess", [defines |-> PreprocessDefs]),
            ImportedNames, "preprocess")

NsAll(space) == Bind(space, "__all__", AllList)

\* The package namespace once import ecoclim_tools has returned.
PackageNs(env) == NsAll(NsPreprocess(NsPlot(NsConfig(NsVersion(<<>>), env))))

\* config.py: both directories are made sure of, the scratch directory first.
ConfigDirs(files, env) == EnsureDir(EnsureDir(files, ScratchDir(env)), ImgDir(env))

\* The directories that may exist before the import.
DirStates(env) == {{}, {ScratchDir(env)}, {ScratchDir(env), ImgDir(env)}}

Environs == {"unset", "/data/eco"}

Init ==
    /\ pc = "import:start"
    /\ args = NoResult
    /\ ret = NoResult
    /\ ns = <<>>
    /\ environ \in Environs
    /\ \E a \in DirStates("unset"), b \in DirStates("/data/eco") : fs = a \cup b
    /\ rcParams = RcDefault
    /\ axs = <<>>
    /\ calls = 0

\* __version__ = "0.1.0"
ImportVersion ==
    /\ pc = "import:start"
    /\ pc' = "import:version"
    /\ ns' = NsVersion(ns)
    /\ UNCHANGED <<args, ret, fs, environ, rcParams, axs, calls>>

\* from . import config: config.py runs, creating the scratch directories.
ImportConfig ==
    /\ pc = "import:version"
    /\ pc' = "import:config"
    /\ fs' = ConfigDirs(fs, environ)
    /\ ns' = NsConfig(ns, environ)
    /\ UNCHANGED <<args, ret, environ, rcParams, axs, calls>>

\* from . import plot: plot.py runs and reads its defaults from config.
ImportPlot ==
    /\ pc = "import:config"
    /\ pc' = "import:plot"
    /\ ns' = NsPlot(ns)
    /\ UNCHANGED <<args, ret, fs, environ, rcParams, axs, calls>>

\* from .preprocess import (...): binds the submodule and the listed names.
ImportPreprocess ==
    /\ pc = "import:plot"
    /\ pc' = "import:preprocess"
    /\ ns' = NsPreprocess(ns)
    /\ UNCHANGED <<args, ret, fs, environ, rcParams, axs, calls>>

\* __all__ = [...]: the package body is done.
ImportAll ==
    /\ pc = "import:preprocess"
    /\ pc' = "imported"
    /\ ns' = NsAll(ns)
    /\ UNCHANGED <<args, ret, fs, environ, rcParams, axs, calls>>

\* The names a caller may ask the package for.
LookupNames == PreprocessDefs \cup Range(AllList) \cup {"preprocess", "__version__"}

\* et.<name>: the attribute, or AttributeError.
GetAttr(name) ==
    /\ pc = "imported"
    /\ args' = [attr |-> name]
    /\ ret' = IF name \in DOMAIN ns THEN [value |-> ns[name]] ELSE Raised("AttributeError")
    /\ UNCHANGED <<pc, ns, fs, environ, rcParams, axs, calls>>

\* from ecoclim_tools import *: every name of __all__ is looked up.
StarImport ==
    /\ pc = "imported"
    /\ args' = [attr |-> "*"]
    /\ ret' = IF Range(ns["__all__"]) \subseteq DOMAIN ns
              THEN [value |-> ns["__all__"]] ELSE Raised("AttributeError")
    /\ UNCHANGED <<pc, ns, fs, environ, rcParams, axs, calls>>

Next ==
    \/ ImportVersion
    \/ ImportConfig
    \/ ImportPlot
    \/ ImportPreprocess
    \/ ImportAll
    \/ \E name \in LookupNames : GetAttr(name)
    \/ StarImport

Spec == Init /\ [][Next]_vars

\* ---- claims about the package entry point

\* The preprocessing functions callers and the test suite reach as et.<name>.
ReachedThroughPackage ==
    {"format_coords", "detrend", "detrend_dask", "deseasonalize",
     "area_weighted_mean", "standardize", "normalize"}

\* C7: after import every preprocessing function reached through the package
\* namespace is bound as an attribute of the package, and so is every name
\* listed in __all__.
C7_PackageReexports ==
    pc = "imported"
    => /\ ReachedThroughPackage \subseteq DOMAIN ns
       /\ Range(ns["__all__"]) \subseteq DOMAIN ns

\* The half of C7 the code keeps: every name of __all__ is bound, and the
\* scratch directories exist.
C7_AllListBound ==
    pc = "imported"
    => /\ Range(ns["__all__"]) \subseteq DOMAIN ns
       /\ {ScratchDir(environ), ImgDir(environ)} \subseteq fs

\* -------------------------------------------------------------------- plot.py

\* An axes: kind ("map" with a cartopy projection, "plain", "colorbar"), its
\* title, the texts added with ax.text, and its other artists in drawing order.
NewAxes(kind, title) == [kind |-> kind, title |-> title, texts |-> <<>>, artists |-> <<>>]

SetTitle(ax, title) == [ax EXCEPT !.title = title]

AddText(ax, text) == [ax EXCEPT !.texts = Append(@, text)]

AddArtist(ax, artist) == [ax EXCEPT !.artists = Append(@, artist)]

\* plot_save(save_fig, path): nothing for save_fig None; else plt.savefig to
\* <base_dir>/<save_fig>.png, which raises when the directory is missing.
\* Returns the files and what was raised.
plot_save(files, plotmod, save_fig, path) ==
    IF save_fig = "None" THEN [fs |-> files, raised |-> "none"]
    ELSE LET base_dir == IF path = "None" THEN plotmod.DEFAULT_SAVE_PATH ELSE path
             full_path == <<base_dir, save_fig \o ".png">>
         IN  IF <<base_dir>> \in files
             THEN [fs |-> files \cup {full_path}, raised |-> "none"]
             ELSE [fs |-> files, raised |-> "FileNotFoundError"]

\* plot_feature_grids(ax, draw_xlabels, draw_ylabels): coastlines, borders and
\* one gridliner on ax.
plot_feature_grids(ax, draw_xlabels, draw_ylabels) ==
    AddArtist(AddArtist(AddArtist(ax,
        [feature |-> "COASTLINE"]),
        [feature |-> "BORDERS", linestyle |-> ":"]),
        [gridlines |-> TRUE, top_labels |-> FALSE, right_labels |-> FALSE,
         bottom_labels |-> draw_xlabels, left_labels |-> draw_ylabels])

\* The labels plot_add_subplot_label can hand out: defined_label when it is
\* given and not empty, else string.ascii_lowercase.
AsciiLowercase ==
    <<"a", "b", "c", "d", "e", "f", "g", "h", "i", "j", "k", "l", "m",
      "n", "o", "p", "q", "r", "s", "t", "u", "v", "w", "x", "y", "z">>

LabelsOf(defined_label) == IF defined_label # <<>> THEN defined_label ELSE AsciiLowercase

\* The axes the loop walks: a single axes is wrapped in a list, an ndarray is
\* flattened row by row, a list is taken as it is.
FlatAxes(axes) ==
    CASE axes.kind = "single" -> <<axes.ax>>
      [] axes.kind = "ndarray" -> Concat(axes.grid)
      [] OTHER -> axes.ids

\* ax.text(x, y, final_text, ...): the text f"{prefix}{label}{suffix}" at (x, y).
LabelText(a, label, x) == [at |-> x, text |-> <<a.prefix, label, a.suffix>>]

\* One pass of the loop body where the label is looked up before the title is
\* cleared: an axes without a label keeps its title.
LabelStepLookupFirst(axes, id, i, a, x) ==
    IF i > Len(LabelsOf(a.defined_label))
    THEN [axs |-> axes, raised |-> "IndexError"]
    ELSE LET cleared == IF a.rm_title THEN [axes EXCEPT ![id] = SetTitle(@, "")] ELSE axes
         IN  [axs |-> [cleared EXCEPT ![id] = AddText(@, LabelText(a, LabelsOf(a.defined_label)[i], x))],
              raised |-> "none"]

\* One pass of the loop body for the i-th axes: clear the title when rm_title,
\* look the i-th label up (IndexError when there is none), add the text.
LabelStep(axes, id, i, a, x) ==
    LET cleared == IF a.rm_title THEN [axes EXCEPT ![id] = SetTitle(@, "")] ELSE axes
    IN  IF i > Len(LabelsOf(a.defined_label))
        THEN [axs |-> cleared, raised |-> "IndexError"]
        ELSE [axs |-> [cleared EXCEPT ![id] =
                          AddText(@, LabelText(a, LabelsOf(a.defined_label)[i], x))],
              raised |-> "none"]

RECURSIVE LabelLoop(_, _, _, _, _)
\* for i, ax in enumerate(axes): ... , stopping at the first pass that raises.
LabelLoop(axes, ids, i, a, x) ==
    IF i > Len(ids) THEN [axs |-> axes, raised |-> "none"]
    ELSE LET step == LabelStep(axes, ids[i], i, a, x)
         IN  IF step.raised # "none" THEN step
             ELSE LabelLoop(step.axs, ids, i + 1, a, x)

\* plot_add_subplot_label(axes, location, rm_title, defined_label, prefix,
\* suffix): the axes afterwards and what was raised.  x is 0 for 'upper left'
\* and 95 (hundredths) for 'upper right'.
plot_add_subplot_label(axes, a) ==
    IF a.location \notin {"upper left", "upper right"}
    THEN [axs |-> axes, raised |-> "ValueError"]
    ELSE LabelLoop(axes, FlatAxes(a.axes), 1, a,
                   IF a.location = "upper left" THEN 0 ELSE 95)

\* plt.rcParams.update({'font.size': 24}) done as a full reset first
\* (sns.reset_orig() left in).
RcForNewFigureReset(rc) == [RcDefault EXCEPT !.font_size = 24]

\* plt.rcParams.update({'font.size': 24})
RcForNewFigure(rc) == [rc EXCEPT !.font_size = 24]

\* sns.set_theme(style="ticks", rc=custom_params, font_scale=2): the ticks
\* style, the notebook context's 12 pt font doubled, and custom_params.
SetTheme(rc) ==
    [rc EXCEPT !.style = "ticks", !.font_size = 24, !.spines_right = FALSE,
               !.spines_top = FALSE, !.figsize = <<100, 80>>]

\* plot_global_var(data, ax, levels, extend, add_colorbar, label, save_fig,
\* vmin, vmax): the configuration, axes and files afterwards, the returned
\* axes and what was raised.
plot_global_var(rc, axes, files, plotmod, a) ==
    LET step == IF "time" \in a.dims /\ Cardinality(a.dims) = 3 THEN "time=-1" ELSE "all"
        fresh == a.ax = 0
        rc1 == IF fresh THEN RcForNewFigure(rc) ELSE rc
        axes1 == IF fresh THEN Append(axes, NewAxes("map", "")) ELSE axes
        id == IF fresh THEN Len(axes1) ELSE a.ax
        kwargs == IF a.levels # <<>>
                  THEN [levels |-> a.levels, extend |-> a.extend]
                  ELSE [vmin |-> a.vmin, vmax |-> a.vmax, extend |-> "neither"]
        drawn == SetTitle(AddArtist(plot_feature_grids(axes1[id], TRUE, TRUE),
                                    [image |-> step, kwargs |-> kwargs]), "")
        axes2 == [axes1 EXCEPT ![id] = drawn]
        cbar == AddArtist(NewAxes("colorbar", ""),
                          [colorbar |-> id, label |-> a.label,
                           extend |-> kwargs.extend, ticks |-> a.levels])
        axes3 == IF a.add_colorbar THEN Append(axes2, cbar) ELSE axes2
        saved == plot_save(files, plotmod, a.save_fig, "None")
    IN  [rc |-> rc1, axs |-> axes3, fs |-> saved.fs, ax |-> id, raised |-> saved.raised]

\* plot_boxplot(data_list, xlabels, ylabel): the theme is set, the boxes go on
\* the current axes (the last one made, a new one when there is none).
plot_boxplot(rc, axes, a) ==
    LET rc1 == SetTheme(rc)
        axes1 == IF axes = <<>> THEN <<NewAxes("plain", "")>> ELSE axes
        id == Len(axes1)
        n == Len(a.data_list)
        xlabels == IF a.xlabels = <<>> THEN [k \in 1..n |-> k - 1] ELSE a.xlabels
        drawn == AddArtist(AddArtist(AddArtist(axes1[id],
                    [boxes |-> n]),
                    [axhline |-> 0, ls |-> "--"]),
                    [xticks |-> [k \in 1..n |-> k - 1], xticklabels |-> xlabels,
                     ylabel |-> a.ylabel])
    IN  [rc |-> rc1, axs |-> [axes1 EXCEPT ![id] = drawn], ax |-> id]

\* ---- the plotting script: any sequence of calls after the import

InitPlot ==
    /\ pc = "imported"
    /\ args = NoResult
    /\ ret = NoResult
    /\ environ \in Environs
    /\ ns = PackageNs(environ)
    /\ fs = ConfigDirs({}, environ)
    /\ rcParams = RcDefault
    /\ axs = <<>>
    /\ calls = 0

MapAxes == {id \in DOMAIN axs : axs[id].kind = "map"}

GlobalVarArgs ==
    {[dims |-> {"lat", "lon"}, ax |-> 0, levels |-> <<>>, extend |-> "neither",
      add_colorbar |-> TRUE, label |-> "", save_fig |-> "None", vmin |-> "None", vmax |-> "None"],
     [dims |-> {"time", "lat", "lon"}, ax |-> 0, levels |-> <<0, 1>>, extend |-> "both",
      add_colorbar |-> FALSE, label |-> "K", save_fig |-> "map", vmin |-> "None", vmax |-> "None"]}

\* ax = plot_global_var(data, ax=ax, ...)
CallPlotGlobalVar ==
    /\ calls < MaxCalls
    /\ \E a0 \in GlobalVarArgs, ax \in {0} \cup MapAxes :
          LET a == [a0 EXCEPT !.ax = ax]
              r == plot_global_var(rcParams, axs, fs, ns["plot"], a)
          IN  /\ args' = a
              /\ rcParams' = r.rc
              /\ axs' = r.axs
              /\ fs' = r.fs
              /\ ret' = IF r.raised = "none" THEN [value |-> r.ax] ELSE Raised(r.raised)
    /\ pc' = "plot_global_var"
    /\ calls' = calls + 1
    /\ UNCHANGED <<ns, environ>>

\* ax = plot_boxplot(data_list, xlabels, ylabel)
CallPlotBoxplot ==
    /\ calls < MaxCalls
    /\ \E a \in {[data_list |-> <<"r1">>, xlabels |-> <<>>, ylabel |-> "Correlation"],
                 [data_list |-> <<"r1", "r2">>, xlabels |-> <<"A", "B">>, ylabel |-> "r"]} :
          LET r == plot_boxplot(rcParams, axs, a)
          IN  /\ args' = a
              /\ rcParams' = r.rc
              /\ axs' = r.axs
              /\ ret' = [value |-> r.ax]
    /\ pc' = "plot_boxplot"
    /\ calls' = calls + 1
    /\ UNCHANGED <<ns, fs, environ>>

\* ax = plot_feature_grids(ax, draw_xlabels, draw_ylabels)
CallPlotFeatureGrids ==
    /\ calls < MaxCalls
    /\ \E id \in MapAxes, labels \in BOOLEAN :
          /\ args' = [ax |-> id, draw_xlabels |-> labels, draw_ylabels |-> labels]
          /\ axs' = [axs EXCEPT ![id] = plot_feature_grids(@, labels, labels)]
          /\ ret' = [value |-> id]
    /\ pc' = "plot_feature_grids"
    /\ calls' = calls + 1
    /\ UNCHANGED <<ns, fs, environ, rcParams>>

\* The ways the script hands its axes over: all of them as a list, or the last.
AxesArgs ==
    IF axs = <<>> THEN {}
    ELSE {[kind |-> "list", ids |-> [k \in 1..Len(axs) |-> k]],
          [kind |-> "single", ax |-> Len(axs)]}

\* axes = plot_add_subplot_label(axes, location, ...)
CallPlotAddSubplotLabel ==
    /\ calls < MaxCalls
    /\ \E axes \in AxesArgs, location \in {"upper left", "lower left"},
          rm_title \in BOOLEAN, defined_label \in {<<>>, <<"i">>} :
          LET a == [axes |-> axes, location |-> location, rm_title |-> rm_title,
                    defined_label |-> defined_label, prefix |-> "(", suffix |-> ")"]
              r == plot_add_subplot_label(axs, a)
          IN  /\ args' = a
              /\ axs' = r.axs
              /\ ret' = IF r.raised = "none" THEN [value |-> FlatAxes(axes)]
                        ELSE Raised(r.raised)
    /\ pc' = "plot_add_subplot_label"
    /\ calls' = calls + 1
    /\ UNCHANGED <<ns, fs, environ, rcParams>>

\* plot_save(save_fig, path)
CallPlotSave ==
    /\ calls < MaxCalls
    /\ \E save_fig \in {"None", "figure"}, path \in {"None", "/nowhere"} :
          LET r == plot_save(fs, ns["plot"], save_fig, path)
          IN  /\ args' = [save_fig |-> save_fig, path |-> path]
              /\ fs' = r.fs
              /\ ret' = IF r.raised = "none" THEN [value |-> "None"] ELSE Raised(r.raised)
    /\ pc' = "plot_save"
    /\ calls' = calls + 1
    /\ UNCHANGED <<ns, environ, rcParams, axs>>

NextPlot ==
    \/ CallPlotGlobalVar
    \/ CallPlotBoxplot
    \/ CallPlotFeatureGrids
    \/ CallPlotAddSubplotLabel
    \/ CallPlotSave

SpecPlot == InitPlot /\ [][NextPlot]_vars
\* ---- claims about the plotting configuration

\* C8 as stated: after any sequence of plotting calls the process-wide
\* configuration (rcParams, the seaborn theme) is what it was before.
C8_ConfigUnchanged == rcParams = RcDefault

\* C8 as the code has it: plot_global_var without an ax sets font.size to 24,
\* plot_boxplot sets the seaborn ticks theme (24 pt font, right and top spines
\* off, 10 x 8 figures), and every other call (plot_global_var on a given ax,
\* plot_feature_grids, plot_add_subplot_label, plot_save) leaves the
\* configuration as it found it.
C8_ConfigSetByTwoCalls ==
    [][IF pc' = "plot_global_var" /\ args'.ax = 0
       THEN rcParams' = [rcParams EXCEPT !.font_size = 24]
       ELSE IF pc' = "plot_boxplot"
       THEN rcParams' = [font_size |-> 24, spines_right |-> FALSE, spines_top |-> FALSE,
                         figsize |-> <<100, 80>>, style |-> "ticks"]
       ELSE rcParams' = rcParams]_vars

\* A boxplot, then a map on a new figure, then labels on its axes: the theme
\* is set, and the labelling call left it alone.
C8_Witness ==
    /\ pc = "plot_add_subplot_label"
    /\ ~IsRaised(ret)
    /\ calls >= 3
    /\ rcParams.style = "ticks"
    /\ \E id \in DOMAIN axs : axs[id].kind = "map" /\ axs[id].texts # <<>>

\* ---- plot_add_subplot_label on a fresh figure

FreshAxes(n) == [i \in 1..n |-> NewAxes("plain", "title")]

\* The axes argument: the n axes as a list, as an ndarray (two rows when n is
\* even, one row otherwise), or the first axes alone.
AxesArgsOf(n) ==
    {[kind |-> "list", ids |-> [k \in 1..n |-> k]],
     [kind |-> "single", ax |-> 1],
     [kind |-> "ndarray",
      grid |-> IF n % 2 = 0
               THEN [r \in 1..2 |-> [c \in 1..(n \div 2) |-> (r - 1) * (n \div 2) + c]]
               ELSE <<[c \in 1..n |-> c]>>]}

LabelArgs(n) ==
    {[axes |-> axes, location |-> location, rm_title |-> rm_title,
      defined_label |-> defined_label, prefix |-> fix[1], suffix |-> fix[2]] :
        axes \in AxesArgsOf(n),
        location \in {"upper left", "upper right", "center"},
        rm_title \in BOOLEAN,
        defined_label \in {<<>>, <<"i">>, <<"i", "ii">>},
        fix \in {<<"(", ")">>, <<"", ".">>}}

InitLabel ==
    /\ pc = "imported"
    /\ \E n \in 1..MaxAxes : axs = FreshAxes(n) /\ args \in LabelArgs(n)
    /\ ret = NoResult
    /\ environ = "unset"
    /\ ns = PackageNs(environ)
    /\ fs = ConfigDirs({}, environ)
    /\ rcParams = RcDefault
    /\ calls = 0

\* axes = plot_add_subplot_label(axes, location, rm_title=..., ...)
CallLabel ==
    /\ pc = "imported"
    /\ calls = 0
    /\ LET r == plot_add_subplot_label(axs, args)
       IN  /\ axs' = r.axs
           /\ ret' = IF r.raised = "none" THEN [value |-> FlatAxes(args.axes)]
                     ELSE Raised(r.raised)
    /\ pc' = "plot_add_subplot_label"
    /\ calls' = 1
    /\ UNCHANGED <<args, ns, fs, environ, rcParams>>

NextLabel == CallLabel

SpecLabel == InitLabel /\ [][NextLabel]_vars

\* ---- claims about plot_add_subplot_label

Labelled == pc = "plot_add_subplot_label"

\* The i-th label string: defined_label[i] when defined_label is given and
\* not empty, else the i-th lowercase letter.
LabelString(a, i) ==
    IF a.defined_label # <<>> THEN a.defined_label[i] ELSE AsciiLowercase[i]

LabelCount(a) == IF a.defined_label # <<>> THEN Len(a.defined_label) ELSE 26

\* The axes the call was given, in flattened order.
GivenAxes(a) ==
    IF a.axes.kind = "single" THEN <<a.axes.ax>>
    ELSE IF a.axes.kind = "list" THEN a.axes.ids
    ELSE Concat(a.axes.grid)

HasLabel(ax, a, i) ==
    \E t \in DOMAIN ax.texts : ax.texts[t].text = <<a.prefix, LabelString(a, i), a.suffix>>

\* C9 as stated: a call that raises has cleared no title and added no text;
\* a call that returns has put prefix + label_i + suffix on the i-th axes.
C9_AllOrNothing ==
    Labelled =>
        IF IsRaised(ret) THEN axs = FreshAxes(Len(axs))
        ELSE \A i \in DOMAIN GivenAxes(args) : HasLabel(axs[GivenAxes(args)[i]], args, i)

\* C9 as the code has it: a bad location raises before any axes is touched;
\* when the labels run out the call raises IndexError with the axes before the
\* shortage labelled (titles cleared under rm_title), the axes at the shortage
\* with its title cleared under rm_title and no text, and the later axes
\* untouched; a call that returns has labelled every axes.
C9_LabelledUpToShortage ==
    Labelled =>
        LET ids == GivenAxes(args)
            L == LabelCount(args)
            title == IF args.rm_title THEN "" ELSE "title"
        IN  IF args.location \notin {"upper left", "upper right"}
            THEN ret = Raised("ValueError") /\ axs = FreshAxes(Len(axs))
            ELSE /\ IsRaised(ret) <=> Len(ids) > L
                 /\ IsRaised(ret) => ret = Raised("IndexError")
                 /\ \A id \in DOMAIN axs \ Range(ids) : axs[id] = NewAxes("plain", "title")
                 /\ \A i \in DOMAIN ids :
                       LET ax == axs[ids[i]]
                       IN  IF i <= L
                           THEN /\ ax.title = title
                                /\ Len(ax.texts) = 1
                                /\ HasLabel(ax, args, i)
                           ELSE IF i = L + 1
                           THEN ax.title = title /\ ax.texts = <<>>
                           ELSE ax = NewAxes("plain", "title")

\* Twenty-seven axes and no defined_label: the alphabet runs out, 'z' is on
\* the 26th axes and the 27th has lost its title and has no text.
C9_Witness ==
    /\ Labelled
    /\ ret = Raised("IndexError")
    /\ args.defined_label = <<>>
    /\ args.rm_title
    /\ Len(axs) = 27
    /\ axs[26].texts # <<>>
    /\ axs[27].title = "" /\ axs[27].texts = <<>>

====
